---- MODULE Spec2Model ----
(***************************************************************************)
(* Model of src/app.py: SaavnApiService.search_songs,                      *)
(* SaavnApiService.get_streaming_url and the Flask routes that call them.  *)
(*                                                                         *)
(* Text (str) is a sequence of one-character strings.  A JSON value is a   *)
(* tagged pair <<t, v>>: t is the Python type json.loads produces, v the   *)
(* payload (a dict keeps its members as <<key, value>> pairs in document   *)
(* order; a lookup takes the last pair of a key, as json.loads does).      *)
(***************************************************************************)
EXTENDS Integers, Sequences, FiniteSets, TLC

(***************************************************************************)
(* Bounds of the upstream inputs the model enumerates.                     *)
(***************************************************************************)
MaxNoise == 1    \* characters of noise in front of a search body
MaxItems == 2    \* records in a `results` collection
MaxPieces == 2   \* pieces an upstream auth_url is assembled from

(***************************************************************************)
(* String literals of the source.                                          *)
(***************************************************************************)
kResults == <<"r","e","s","u","l","t","s">>
kSongs == <<"s","o","n","g","s">>
kMoreInfo == <<"m","o","r","e","_","i","n","f","o">>
kEncryptedMediaUrl ==
    <<"e","n","c","r","y","p","t","e","d","_","m","e","d","i","a","_","u","r","l">>
kAuthUrl == <<"a","u","t","h","_","u","r","l">>
WebHost == <<"w","e","b",".","s","a","a","v","n","c","d","n",".","c","o","m">>
AacHost == <<"a","a","c",".","s","a","a","v","n","c","d","n",".","c","o","m">>
Suffix96 == <<"_","9","6",".","m","p","4">>
Suffix320 == <<"_","3","2","0",".","m","p","4">>
Bitrate320 == <<"3","2","0">>
BASE_URL == "https://www.jiosaavn.com/api.php"
API_PARAMS == "&_format=json&_marker=0&api_version=4&ctx=web6dot0"

(***************************************************************************)
(* JSON values as Python objects.                                          *)
(***************************************************************************)
JNull == <<"NoneType", <<>>>>
JBool(b) == <<"bool", b>>
JNum(n) == <<"int", n>>
JStr(s) == <<"str", s>>
JList(items) == <<"list", items>>
JDict(members) == <<"dict", members>>
EmptyList == JList(<<>>)
EmptyDict == JDict(<<>>)
TypeOf(x) == x[1]
ValueOf(x) == x[2]
\* The value of a local variable that has not been assigned.
Unset == <<"unset", <<>>>>

(***************************************************************************)
(* Python str operations.                                                  *)
(***************************************************************************)
\* s[i:] for an index as str.find returns it (0-based, -1 counts from the end).
SliceFrom(s, i) ==
    LET start == IF i < 0 THEN (IF Len(s) + i < 0 THEN 0 ELSE Len(s) + i) ELSE i
    IN  SubSeq(s, start + 1, Len(s))

\* s.startswith(sub, i) with a 1-based position i.
StartsAt(s, sub, i) ==
    /\ i + Len(sub) - 1 <= Len(s)
    /\ \A k \in 1..Len(sub) : s[i + k - 1] = sub[k]

\* sub in s
Contains(s, sub) == \E i \in 1..(Len(s) + 1) : StartsAt(s, sub, i)

RECURSIVE FindFrom(_, _, _)
FindFrom(s, c, i) ==
    IF i > Len(s) THEN -1
    ELSE IF s[i] = c THEN i - 1
    ELSE FindFrom(s, c, i + 1)

\* The mutant of Find: the last occurrence instead of the first.
RECURSIVE RFindFrom(_, _, _)
RFindFrom(s, c, i) ==
    IF i < 1 THEN -1
    ELSE IF s[i] = c THEN i - 1
    ELSE RFindFrom(s, c, i - 1)
FindLast(s, c) == RFindFrom(s, c, Len(s))

\* s.find(c): the 0-based index of the first c, -1 when there is none.
Find(s, c) == FindFrom(s, c, 1)

RECURSIVE ReplaceFrom(_, _, _, _)
ReplaceFrom(s, old, new, i) ==
    IF i > Len(s) THEN <<>>
    ELSE IF StartsAt(s, old, i)
         THEN new \o ReplaceFrom(s, old, new, i + Len(old))
         ELSE <<s[i]>> \o ReplaceFrom(s, old, new, i + 1)

\* The mutant of Replace: only the first occurrence is replaced.
RECURSIVE ReplaceFirstFrom(_, _, _, _)
ReplaceFirstFrom(s, old, new, i) ==
    IF i > Len(s) THEN <<>>
    ELSE IF StartsAt(s, old, i)
         THEN new \o SubSeq(s, i + Len(old), Len(s))
         ELSE <<s[i]>> \o ReplaceFirstFrom(s, old, new, i + 1)
ReplaceFirst(s, old, new) == ReplaceFirstFrom(s, old, new, 1)

\* s.replace(old, new) for a non-empty old: every non-overlapping occurrence,
\* leftmost first.
Replace(s, old, new) == ReplaceFrom(s, old, new, 1)

RECURSIVE LStrip(_)
LStrip(s) == IF s # <<>> /\ Head(s) = " " THEN LStrip(Tail(s)) ELSE s
RECURSIVE RStrip(_)
RStrip(s) ==
    IF s # <<>> /\ s[Len(s)] = " " THEN RStrip(SubSeq(s, 1, Len(s) - 1)) ELSE s
\* The mutant of Strip: the text is taken as it came.
StripNothing(s) == s

\* s.strip()
Strip(s) == RStrip(LStrip(s))

(***************************************************************************)
(* urllib.parse.quote(string) with its default safe='/'.  The characters   *)
(* of the model are ASCII: letters, digits and "_.-~/" are kept, each      *)
(* other character becomes its percent code.                               *)
(***************************************************************************)
PercentCode ==
    (" " :> <<"%","2","0">>) @@ ("\"" :> <<"%","2","2">>) @@
    ("%" :> <<"%","2","5">>) @@ ("&" :> <<"%","2","6">>) @@
    ("+" :> <<"%","2","B">>) @@ ("," :> <<"%","2","C">>) @@
    (":" :> <<"%","3","A">>) @@ ("=" :> <<"%","3","D">>) @@
    ("?" :> <<"%","3","F">>) @@ ("[" :> <<"%","5","B">>) @@
    ("]" :> <<"%","5","D">>) @@ ("{" :> <<"%","7","B">>) @@
    ("}" :> <<"%","7","D">>)

RECURSIVE QuoteChars(_)
QuoteChars(s) ==
    IF s = <<>> THEN <<>>
    ELSE (IF Head(s) \in DOMAIN PercentCode THEN PercentCode[Head(s)] ELSE <<Head(s)>>)
         \o QuoteChars(Tail(s))

\* The mutant of Quote: the text is embedded without encoding.
QuoteNothing(s) == s

\* quote(s) for a str s.
Quote(s) == QuoteChars(s)

(***************************************************************************)
(* json.loads(text).  The grammar covers objects, arrays, strings without  *)
(* escapes, unsigned integers, null, true, false and blanks between        *)
(* tokens; anything else is a JSONDecodeError (ok = FALSE).                *)
(***************************************************************************)
Digits == {"0", "1", "2", "3", "4", "5", "6", "7", "8", "9"}
DigitVal ==
    ("0" :> 0) @@ ("1" :> 1) @@ ("2" :> 2) @@ ("3" :> 3) @@ ("4" :> 4) @@
    ("5" :> 5) @@ ("6" :> 6) @@ ("7" :> 7) @@ ("8" :> 8) @@ ("9" :> 9)
LitNull == <<"n","u","l","l">>
LitTrue == <<"t","r","u","e">>
LitFalse == <<"f","a","l","s","e">>

ParseFail == [ok |-> FALSE, val |-> JNull, pos |-> 0]
ParseOk(value, next) == [ok |-> TRUE, val |-> value, pos |-> next]

RECURSIVE SkipWs(_, _)
SkipWs(s, i) == IF i <= Len(s) /\ s[i] = " " THEN SkipWs(s, i + 1) ELSE i

\* The position after the run of digits that starts at i.
RECURSIVE DigitsEnd(_, _)
DigitsEnd(s, i) == IF i <= Len(s) /\ s[i] \in Digits THEN DigitsEnd(s, i + 1) ELSE i

RECURSIVE DigitsValue(_, _, _)
DigitsValue(s, i, j) ==
    IF j < i THEN 0 ELSE 10 * DigitsValue(s, i, j - 1) + DigitVal[s[j]]

\* s[i] is a digit: "0" stands alone, any other digit starts a run.
ParseNumber(s, i) ==
    LET e == IF s[i] = "0" THEN i + 1 ELSE DigitsEnd(s, i)
    IN  ParseOk(JNum(DigitsValue(s, i, e - 1)), e)

\* The position of the first quote at or after i, 0 when there is none.
RECURSIVE QuoteAt(_, _)
QuoteAt(s, i) ==
    IF i > Len(s) THEN 0 ELSE IF s[i] = "\"" THEN i ELSE QuoteAt(s, i + 1)

\* s[i] is the opening quote: the string ends at the next quote.
ParseString(s, i) ==
    LET j == QuoteAt(s, i + 1)
    IN  IF j = 0 THEN ParseFail ELSE ParseOk(JStr(SubSeq(s, i + 1, j - 1)), j + 1)

RECURSIVE ParseValue(_, _)
RECURSIVE ParseElements(_, _, _)
RECURSIVE ParseMembers(_, _, _)

\* i is the position of an element of an array whose earlier elements are acc.
ParseElements(s, i, acc) ==
    LET e == ParseValue(s, i)
        j == SkipWs(s, e.pos)
    IN  IF ~e.ok \/ j > Len(s) THEN ParseFail
        ELSE IF s[j] = "," THEN ParseElements(s, SkipWs(s, j + 1), Append(acc, e.val))
        ELSE IF s[j] = "]" THEN ParseOk(JList(Append(acc, e.val)), j + 1)
        ELSE ParseFail

\* i is the position of a member's key in an object whose earlier members are acc.
ParseMembers(s, i, acc) ==
    IF i > Len(s) \/ s[i] # "\"" THEN ParseFail
    ELSE
      LET k == ParseString(s, i)
          c == SkipWs(s, k.pos)
      IN  IF ~k.ok \/ c > Len(s) \/ s[c] # ":" THEN ParseFail
          ELSE
            LET e == ParseValue(s, SkipWs(s, c + 1))
                j == SkipWs(s, e.pos)
                members == Append(acc, <<ValueOf(k.val), e.val>>)
            IN  IF ~e.ok \/ j > Len(s) THEN ParseFail
                ELSE IF s[j] = "," THEN ParseMembers(s, SkipWs(s, j + 1), members)
                ELSE IF s[j] = "}" THEN ParseOk(JDict(members), j + 1)
                ELSE ParseFail

ParseValue(s, i) ==
    IF i > Len(s) THEN ParseFail
    ELSE IF s[i] = "{" THEN
        LET j == SkipWs(s, i + 1)
        IN  IF j <= Len(s) /\ s[j] = "}" THEN ParseOk(EmptyDict, j + 1)
            ELSE ParseMembers(s, j, <<>>)
    ELSE IF s[i] = "[" THEN
        LET j == SkipWs(s, i + 1)
        IN  IF j <= Len(s) /\ s[j] = "]" THEN ParseOk(EmptyList, j + 1)
            ELSE ParseElements(s, j, <<>>)
    ELSE IF s[i] = "\"" THEN ParseString(s, i)
    ELSE IF s[i] \in Digits THEN ParseNumber(s, i)
    ELSE IF StartsAt(s, LitNull, i) THEN ParseOk(JNull, i + Len(LitNull))
    ELSE IF StartsAt(s, LitTrue, i) THEN ParseOk(JBool(TRUE), i + Len(LitTrue))
    ELSE IF StartsAt(s, LitFalse, i) THEN ParseOk(JBool(FALSE), i + Len(LitFalse))
    ELSE ParseFail

\* json.loads(s): one value, blanks around it, nothing after it.
JsonLoads(s) ==
    LET r == ParseValue(s, SkipWs(s, 1))
    IN  IF r.ok /\ SkipWs(s, r.pos) = Len(s) + 1 THEN r ELSE ParseFail

(***************************************************************************)
(* The upstream's serializer: the compact JSON text of a value.            *)
(***************************************************************************)
RECURSIVE NumChars(_)
NumChars(n) ==
    LET d == CHOOSE c \in Digits : DigitVal[c] = n % 10
    IN  IF n < 10 THEN <<d>> ELSE Append(NumChars(n \div 10), d)

RECURSIVE Dumps(_)
RECURSIVE DumpsItems(_)
RECURSIVE DumpsMembers(_)
DumpsItems(items) ==
    IF items = <<>> THEN <<>>
    ELSE Dumps(Head(items))
         \o (IF Len(items) > 1 THEN <<",">> ELSE <<>>) \o DumpsItems(Tail(items))
DumpsMembers(members) ==
    IF members = <<>> THEN <<>>
    ELSE <<"\"">> \o Head(members)[1] \o <<"\"", ":">> \o Dumps(Head(members)[2])
         \o (IF Len(members) > 1 THEN <<",">> ELSE <<>>) \o DumpsMembers(Tail(members))
Dumps(x) ==
    CASE TypeOf(x) = "NoneType" -> LitNull
      [] TypeOf(x) = "bool" -> (IF ValueOf(x) THEN LitTrue ELSE LitFalse)
      [] TypeOf(x) = "int" -> NumChars(ValueOf(x))
      [] TypeOf(x) = "str" -> <<"\"">> \o ValueOf(x) \o <<"\"">>
      [] TypeOf(x) = "list" -> <<"[">> \o DumpsItems(ValueOf(x)) \o <<"]">>
      [] TypeOf(x) = "dict" -> <<"{">> \o DumpsMembers(ValueOf(x)) \o <<"}">>

(***************************************************************************)
(* Python's operations on a parsed value.  Each gives [ok, val]: ok is     *)
(* FALSE when Python raises (TypeError, KeyError, IndexError or            *)
(* AttributeError) for an operand of that type.                            *)
(***************************************************************************)
PyRaise == [ok |-> FALSE, val |-> JNull]
PyOk(value) == [ok |-> TRUE, val |-> value]

DictHas(members, key) == \E i \in 1..Len(members) : members[i][1] = key
\* The value of the last member with this key (a repeated key overwrites).
DictLookup(members, key) ==
    LET i == CHOOSE k \in 1..Len(members) :
                 /\ members[k][1] = key
                 /\ \A m \in (k + 1)..Len(members) : members[m][1] # key
    IN  members[i][2]
DictKeys(members) == {members[i][1] : i \in 1..Len(members)}

\* key in x, for a str key
PyContains(key, x) ==
    CASE TypeOf(x) = "dict" -> PyOk(JBool(DictHas(ValueOf(x), key)))
      [] TypeOf(x) = "list" ->
             PyOk(JBool(\E i \in 1..Len(ValueOf(x)) : ValueOf(x)[i] = JStr(key)))
      [] TypeOf(x) = "str" -> PyOk(JBool(Contains(ValueOf(x), key)))
      [] OTHER -> PyRaise

\* x[key], for a str key
PyGetItemKey(x, key) ==
    IF TypeOf(x) = "dict" /\ DictHas(ValueOf(x), key)
    THEN PyOk(DictLookup(ValueOf(x), key))
    ELSE PyRaise

\* len(x)
PyLen(x) ==
    CASE TypeOf(x) = "dict" -> PyOk(JNum(Cardinality(DictKeys(ValueOf(x)))))
      [] TypeOf(x) \in {"list", "str"} -> PyOk(JNum(Len(ValueOf(x))))
      [] OTHER -> PyRaise

\* x[0]: a dict parsed from JSON has str keys only, so x[0] is a KeyError.
PyGetItem0(x) ==
    CASE TypeOf(x) = "list" /\ ValueOf(x) # <<>> -> PyOk(ValueOf(x)[1])
      [] TypeOf(x) = "str" /\ ValueOf(x) # <<>> -> PyOk(JStr(<<ValueOf(x)[1]>>))
      [] OTHER -> PyRaise

\* x.get(key, default)
PyGet(x, key, default) ==
    IF TypeOf(x) # "dict" THEN PyRaise
    ELSE IF DictHas(ValueOf(x), key) THEN PyOk(DictLookup(ValueOf(x), key))
    ELSE PyOk(default)

(***************************************************************************)
(* What requests.get hands back: an exception, or a response with a status *)
(* code and a text.                                                         *)
(***************************************************************************)
NoResponse == [kind |-> "none", status |-> 0, text |-> <<>>]
TransportError == [kind |-> "exception", status |-> 0, text |-> <<>>]
HttpResponse(status, text) == [kind |-> "http", status |-> status, text |-> text]

(***************************************************************************)
(* How a call, or a step of it, ends: it returns a value, raises an        *)
(* exception, or goes on to its next step.                                 *)
(***************************************************************************)
Pending == [kind |-> "pending", exc |-> "", msg |-> "", ret |-> Unset]
\* A step of get_streaming_url is over and the function goes on with value.
Proceed(value) == [kind |-> "proceed", exc |-> "", msg |-> "", ret |-> value]
Return(value) == [kind |-> "return", exc |-> "", msg |-> "", ret |-> value]
Raise(exc, msg) == [kind |-> "raise", exc |-> exc, msg |-> msg, ret |-> Unset]

MsgDetails == "Could not get song details"
MsgToken == "Could not generate streaming URL"
MsgQuote == "quote_from_bytes() expected bytes"

(***************************************************************************)
(* search_songs: the try block and its handler.                            *)
(***************************************************************************)
\* response.status_code == 200
SearchStatusOk(status) == status = 200

\* The mutant of CleanJson: the text is parsed as it came.
CleanJsonKeepsAll(text) == text

\* response.text[response.text.find('{'):]
CleanJson(text) == SliceFrom(text, Find(text, "{"))

\* The try block: [ok, val], ok = FALSE when an exception is raised in it.
SearchTry(response) ==
    LET clean_json == CleanJson(response.text)
        data == JsonLoads(clean_json)
        results == PyGet(data.val, kResults, EmptyList)
    IN  IF /\ response.kind = "http"
           /\ SearchStatusOk(response.status)
           /\ data.ok
           /\ results.ok
        THEN PyOk(results.val)
        ELSE PyRaise

\* The mutant of SearchExcept: the handler lets the failure through.
SearchExceptRaises == Raise("Exception", "Failed to search songs")

\* except Exception: return []
SearchExcept == Return(EmptyList)

search_songs(response) ==
    LET t == SearchTry(response)
    IN  IF t.ok THEN Return(t.val) ELSE SearchExcept

(***************************************************************************)
(* get_streaming_url: Step 1, the token request, Step 2.                   *)
(***************************************************************************)
\* A test such as "key in x" passes: it did not raise and its value is True.
Truthy(test) == test.ok /\ ValueOf(test.val)
\* len(x) > 0
NonEmpty(n) == n.ok /\ ValueOf(n.val) > 0

\* if 'encrypted_media_url' in more_info: encrypted_url = more_info[...]
EncryptedUrlOf(more_info) ==
    IF ~more_info.ok THEN PyRaise
    ELSE IF ~Truthy(PyContains(kEncryptedMediaUrl, more_info.val)) THEN PyRaise
    ELSE PyGetItemKey(more_info.val, kEncryptedMediaUrl)

\* more_info = song_data.get('more_info', {}) and what follows it
MoreInfoOf(song_data) ==
    IF ~song_data.ok THEN PyRaise
    ELSE EncryptedUrlOf(PyGet(song_data.val, kMoreInfo, EmptyDict))

\* len(details_data['songs']) > 0, song_data = details_data['songs'][0] and
\* what follows it
FirstSongOf(songs) ==
    IF ~songs.ok THEN PyRaise
    ELSE IF ~NonEmpty(PyLen(songs.val)) THEN PyRaise
    ELSE MoreInfoOf(PyGetItem0(songs.val))

\* if 'songs' in details_data and ...: the body of the try after json.loads
DetailsOf(details_data) ==
    IF ~details_data.ok THEN PyRaise
    ELSE IF ~Truthy(PyContains(kSongs, details_data.val)) THEN PyRaise
    ELSE FirstSongOf(PyGetItemKey(details_data.val, kSongs))

\* The mutant of DetailsTry: the status is tested as search_songs tests it.
DetailsTryChecksStatus(details_response) ==
    IF details_response.kind # "http" \/ details_response.status # 200 THEN PyRaise
    ELSE DetailsOf(JsonLoads(details_response.text))

\* The try block of Step 1: [ok, val], val the encrypted_url it assigns.
DetailsTry(details_response) ==
    IF details_response.kind # "http" THEN PyRaise
    ELSE DetailsOf(JsonLoads(details_response.text))

\* The mutant of DetailsExcept: the handler logs and goes on with an empty
\* encrypted_url.
DetailsExceptGoesOn == Proceed(JStr(<<>>))

\* Step 1's handler: raise Exception('Could not get song details')
DetailsExcept == Raise("Exception", MsgDetails)

DetailsStep(details_response) ==
    LET t == DetailsTry(details_response)
    IN  IF t.ok THEN Proceed(t.val) ELSE DetailsExcept

\* The try block of Step 2: [ok, val], val the auth_url (a str).
TokenTry(token_response) ==
    LET token_data == JsonLoads(token_response.text)
        auth_url == PyGet(token_data.val, kAuthUrl, JNull)
    IN  IF /\ token_response.kind = "http"
           /\ token_data.ok
           /\ auth_url.ok
           /\ TypeOf(auth_url.val) = "str"
        THEN PyOk(auth_url.val)
        ELSE PyRaise

\* The mutant of TokenExcept: the handler logs and the function returns None.
TokenExceptReturnsNone == Return(JNull)

\* Step 2's handler: raise Exception('Could not generate streaming URL')
TokenExcept == Raise("Exception", MsgToken)

TokenStep(token_response) ==
    LET t == TokenTry(token_response)
    IN  IF t.ok THEN Proceed(t.val) ELSE TokenExcept

\* The mutant of Transform: the second replacement is left out.
TransformHostOnly(stream_url) == Replace(stream_url, WebHost, AacHost)

\* stream_url.replace('web.saavncdn.com', 'aac.saavncdn.com')
\*           .replace('_96.mp4', '_320.mp4')
Transform(stream_url) ==
    Replace(Replace(stream_url, WebHost, AacHost), Suffix96, Suffix320)

(***************************************************************************)
(* The outbound requests: the f-string URLs, kept as their parts.          *)
(***************************************************************************)
Request(call, params) ==
    [base |-> BASE_URL, call |-> call, params |-> params, fixed |-> API_PARAMS]
SearchRequest(query) == Request("search.getResults", <<<<"q", Quote(query)>>>>)
DetailsRequest(song_id) == Request("song.getDetails", <<<<"pids", song_id>>>>)
\* quote(x) for any x: a TypeError unless x is a str.
PyQuote(x) == IF TypeOf(x) = "str" THEN PyOk(JStr(Quote(ValueOf(x)))) ELSE PyRaise
\* The token request for an encoded_encrypted_url.
TokenRequest(encoded) ==
    Request("song.generateAuthToken",
            <<<<"url", encoded>>, <<"bitrate", Bitrate320>>>>)

(***************************************************************************)
(* The inputs: what the web client sends and what the upstream answers.    *)
(***************************************************************************)
SeqsUpTo(S, n) == UNION {[1..k -> S] : k \in 0..n}

RECURSIVE Flatten(_)
Flatten(ss) == IF ss = <<>> THEN <<>> ELSE Head(ss) \o Flatten(Tail(ss))

Member(key, value) == <<key, value>>
Obj1(key, value) == JDict(<<Member(key, value)>>)

\* The text of the query parameter as the client sends it.
RawQueries ==
    {<<>>, <<" ">>, <<"a">>, <<" ", "a", " ">>, <<"a", " ", "b">>, <<"a", "&", "b">>}
SongIds == {<<"i", "d", "1">>, <<"i", "d", "2">>}
Statuses == {200, 204, 404, 500}

\* Texts that are not JSON.
JunkTexts == {<<>>, <<"x">>, <<"{">>, <<"{", "x", "}">>, <<"<", "h", "t", "m", "l", ">">>}
NoiseChars == {"x", " ", "["}
NoisePrefixes == SeqsUpTo(NoiseChars, MaxNoise) \ {<<>>}

\* The texts the upstream sends for a value: as it is, cut short, followed by
\* noise and after noise.
TextsOf(value) ==
    LET text == Dumps(value)
    IN  {text, SubSeq(text, 1, Len(text) - 1), text \o <<"x">>, <<"x">> \o text}
NoisyTextsOf(value) ==
    TextsOf(value) \cup {noise \o Dumps(value) : noise \in NoisePrefixes}

KeyId == <<"i", "d">>
Records == {Obj1(KeyId, JStr(<<"a">>)), Obj1(KeyId, JStr(<<"b">>))}
ResultLists == SeqsUpTo(Records, MaxItems)
\* Values that are no collection of records.
Scalars == {JNull, JNum(5), JStr(<<"a", "b">>), JBool(TRUE)}

SearchValues ==
    {Obj1(kResults, JList(l)) : l \in ResultLists}
    \cup {Obj1(kResults, x) : x \in Scalars \cup {EmptyDict}}
    \cup {EmptyDict, Obj1(KeyId, JNum(5)),
          JDict(<<Member(kResults, JNum(5)), Member(kResults, EmptyList)>>),
          JList(<<JNum(1)>>), JList(<<Obj1(kResults, EmptyList)>>),
          JNum(5), JNull, JStr(kResults)}
SearchBodies == JunkTexts \cup UNION {NoisyTextsOf(x) : x \in SearchValues}
SearchResponses ==
    {TransportError}
    \cup {HttpResponse(st, b) : st \in Statuses, b \in SearchBodies}

\* The values upstream may put in encrypted_media_url.
EncE1 == <<"E", "1">>
EncSpecial == <<"a", "/", "b", ":", "c", "?", "d", "=", "e", "+">>
EncryptedUrls == {JStr(EncE1), JStr(<<>>), JStr(EncSpecial)}
Song(e) == Obj1(kMoreInfo, Obj1(kEncryptedMediaUrl, e))
SongsOf(songs) == Obj1(kSongs, songs)

DetailsValues ==
    {SongsOf(JList(<<Song(e)>>)) : e \in EncryptedUrls \cup Scalars \cup {EmptyList}}
    \cup {SongsOf(JList(<<Song(JStr(EncE1)), Song(JStr(<<>>))>>)),
          SongsOf(JList(<<EmptyDict, Song(JStr(EncE1))>>)),
          JDict(<<Member(KeyId, JNum(5)),
                  Member(kSongs, JList(<<Song(JStr(EncE1))>>))>>)}
    \cup {SongsOf(x) : x \in Scalars \cup
              {EmptyList, EmptyDict, Obj1(KeyId, JNum(5)), JStr(<<>>),
               JList(<<JNum(5)>>), JList(<<JNull>>), JList(<<EmptyDict>>),
               JList(<<JStr(kMoreInfo)>>)}}
    \cup {SongsOf(JList(<<Obj1(kMoreInfo, x)>>)) : x \in Scalars \cup
              {EmptyDict, EmptyList, JStr(kEncryptedMediaUrl),
               JList(<<JStr(kEncryptedMediaUrl)>>), Obj1(KeyId, JNum(5))}}
    \cup {EmptyDict, Obj1(KeyId, JNum(5)), JList(<<JStr(kSongs)>>), JStr(kSongs),
          EmptyList, JNum(5), JNull}
DetailsBodies == JunkTexts \cup UNION {TextsOf(x) : x \in DetailsValues}
StreamStatuses == {200, 404}
DetailsResponses ==
    {TransportError}
    \cup {HttpResponse(st, b) : st \in StreamStatuses, b \in DetailsBodies}

\* The pieces upstream auth_urls are assembled from: the literals of the
\* transformation, their replacements, and halves of a literal.
Scheme == <<"h", "t", "t", "p", "s", ":", "/", "/">>
PathS == <<"/", "s">>
PathTrack == <<"/", "t", "r", "a", "c", "k">>
QueryX == <<"?", "x", "=", "1">>
UrlPieces ==
    {Scheme, WebHost, AacHost, Suffix96, Suffix320,
     <<"_", "9", "6">>, <<".", "m", "p", "4">>}
UrlShort == Scheme \o WebHost \o PathS \o Suffix96
UrlTrack == Scheme \o WebHost \o PathTrack \o Suffix96 \o QueryX
UrlShort320 == Scheme \o AacHost \o PathS \o Suffix320
UrlTrack320 == Scheme \o AacHost \o PathTrack \o Suffix320 \o QueryX
\* A URL whose query string names the file again.
QueryFile == <<"?", "f", "=", "s">>
UrlEcho == UrlShort \o QueryFile \o Suffix96
AuthUrls ==
    {Flatten(ps) : ps \in SeqsUpTo(UrlPieces, MaxPieces)}
    \cup {UrlShort, UrlTrack, UrlShort320, UrlTrack320, UrlEcho}

TokenValues ==
    {Obj1(kAuthUrl, JStr(u)) : u \in AuthUrls}
    \cup {Obj1(kAuthUrl, x) : x \in (Scalars \ {JStr(<<"a", "b">>)})
                                    \cup {EmptyList, EmptyDict}}
    \cup {JDict(<<Member(kAuthUrl, JStr(UrlShort)), Member(kAuthUrl, JNull)>>),
          JDict(<<Member(KeyId, JNum(5)), Member(kAuthUrl, JStr(UrlShort))>>),
          EmptyDict, Obj1(KeyId, JStr(UrlShort)), JList(<<JStr(kAuthUrl)>>),
          JStr(kAuthUrl), JNum(5), JNull}
TokenBodies ==
    JunkTexts
    \cup {Dumps(x) : x \in TokenValues}
    \cup UNION {TextsOf(Obj1(kAuthUrl, JStr(u))) : u \in {UrlShort, <<>>}}
TokenResponses ==
    {TransportError}
    \cup {HttpResponse(st, b) : st \in StreamStatuses, b \in TokenBodies}

(***************************************************************************)
(* The state: one entry per request the web server is handling.            *)
(***************************************************************************)
VARIABLES
    pc,                \* where the handler of the request is
    route,             \* the Flask route: "index", "api_search", "api_stream"
    arg,               \* query (stripped) or song_id
    sent,              \* the outbound requests issued so far, in order
    response,          \* search_songs: what requests.get gave
    details_response,  \* get_streaming_url, Step 1: what requests.get gave
    token_response,    \* get_streaming_url, Step 2: what requests.get gave
    encrypted_url,     \* get_streaming_url: the local of that name
    stream_url,        \* get_streaming_url: the local of that name
    outcome,           \* how search_songs or get_streaming_url ended
    reply              \* what the route answers

vars == <<pc, route, arg, sent, response, details_response, token_response,
          encrypted_url, stream_url, outcome, reply>>

\* What a route answers: the status and the fields of its JSON body (or the
\* variables of its template); a field that is absent is Unset.
NoReply == [status |-> 0, results |-> Unset, stream_url |-> Unset, error |-> Unset]
\* str(e) of a caught exception, or a literal message
ErrorText(msg) == <<"message", msg>>
\* jsonify({'results': results})
JsonResults(results) ==
    [status |-> 200, results |-> results, stream_url |-> Unset, error |-> Unset]
\* jsonify({'stream_url': stream_url})
JsonStreamUrl(url) ==
    [status |-> 200, results |-> Unset, stream_url |-> url, error |-> Unset]
\* jsonify({'error': msg}), status
JsonError(msg, status) ==
    [status |-> status, results |-> Unset, stream_url |-> Unset,
     error |-> ErrorText(msg)]
\* render_template("index.html", results=results, error=error, query=query)
Render(results, error) ==
    [status |-> 200, results |-> results, stream_url |-> Unset, error |-> error]
MsgQueryRequired == "Query parameter required"

Requests == DOMAIN pc

InitFor(requests) ==
    /\ pc = [p \in requests |-> "idle"]
    /\ route = [p \in requests |-> "none"]
    /\ arg = [p \in requests |-> <<>>]
    /\ sent = [p \in requests |-> <<>>]
    /\ response = [p \in requests |-> NoResponse]
    /\ details_response = [p \in requests |-> NoResponse]
    /\ token_response = [p \in requests |-> NoResponse]
    /\ encrypted_url = [p \in requests |-> Unset]
    /\ stream_url = [p \in requests |-> Unset]
    /\ outcome = [p \in requests |-> Pending]
    /\ reply = [p \in requests |-> NoReply]

Init == InitFor({"r1"})

(***************************************************************************)
(* The routes that search.                                                 *)
(***************************************************************************)
\* A route has a non-empty query: it calls search_songs, which issues its request.
CallSearch(p, name, query) ==
    /\ route' = [route EXCEPT ![p] = name]
    /\ arg' = [arg EXCEPT ![p] = query]
    /\ sent' = [sent EXCEPT ![p] = Append(@, SearchRequest(query))]
    /\ pc' = [pc EXCEPT ![p] = "SearchRequested"]
    /\ UNCHANGED reply

\* A route answers without calling search_songs.
AnswerAtOnce(p, name, answer) ==
    /\ route' = [route EXCEPT ![p] = name]
    /\ reply' = [reply EXCEPT ![p] = answer]
    /\ pc' = [pc EXCEPT ![p] = "done"]
    /\ UNCHANGED <<arg, sent>>

\* GET /api/search?q=raw
ApiSearch(p, raw) ==
    /\ pc[p] = "idle"
    /\ LET query == Strip(raw)
       IN  IF query = <<>>
           THEN AnswerAtOnce(p, "api_search", JsonError(MsgQueryRequired, 400))
           ELSE CallSearch(p, "api_search", query)
    /\ UNCHANGED <<response, details_response, token_response, encrypted_url,
                   stream_url, outcome>>

\* GET / or POST / with the form field query=raw
Index(p, method, raw) ==
    /\ pc[p] = "idle"
    /\ LET query == IF method = "POST" THEN Strip(raw) ELSE <<>>
       IN  IF query = <<>>
           THEN AnswerAtOnce(p, "index", Render(EmptyList, JNull))
           ELSE CallSearch(p, "index", query)
    /\ UNCHANGED <<response, details_response, token_response, encrypted_url,
                   stream_url, outcome>>

\* requests.get returns or raises, and search_songs runs to its end.
SearchRespond(p) ==
    /\ pc[p] = "SearchRequested"
    /\ \E r \in SearchResponses :
           /\ response' = [response EXCEPT ![p] = r]
           /\ outcome' = [outcome EXCEPT ![p] = search_songs(r)]
    /\ pc' = [pc EXCEPT ![p] = "SearchReturned"]
    /\ UNCHANGED <<route, arg, sent, details_response, token_response,
                   encrypted_url, stream_url, reply>>

\* The route's answer once search_songs has ended.
SearchAnswer(name, result) ==
    IF name = "api_search"
    THEN IF result.kind = "return"
         THEN JsonResults(result.ret)
         ELSE JsonError(result.msg, 500)
    ELSE IF result.kind = "return"
         THEN Render(result.ret, JNull)
         ELSE Render(EmptyList, ErrorText(result.msg))

SearchReply(p) ==
    /\ pc[p] = "SearchReturned"
    /\ reply' = [reply EXCEPT ![p] = SearchAnswer(route[p], outcome[p])]
    /\ pc' = [pc EXCEPT ![p] = "done"]
    /\ UNCHANGED <<route, arg, sent, response, details_response, token_response,
                   encrypted_url, stream_url, outcome>>

(***************************************************************************)
(* /api/stream/<song_id> and get_streaming_url.                            *)
(***************************************************************************)
ApiStream(p, song_id) ==
    /\ pc[p] = "idle"
    /\ route' = [route EXCEPT ![p] = "api_stream"]
    /\ arg' = [arg EXCEPT ![p] = song_id]
    /\ pc' = [pc EXCEPT ![p] = "Start"]
    /\ UNCHANGED <<sent, response, details_response, token_response,
                   encrypted_url, stream_url, outcome, reply>>

\* The mutant of RequestDetails: the request is sent again after a first
\* attempt.
RequestDetailsTwice(p) ==
    /\ pc[p] = "Start"
    /\ sent' = [sent EXCEPT ![p] =
                    Append(Append(@, DetailsRequest(arg[p])), DetailsRequest(arg[p]))]
    /\ pc' = [pc EXCEPT ![p] = "DetailsRequested"]
    /\ UNCHANGED <<route, arg, response, details_response, token_response,
                   encrypted_url, stream_url, outcome, reply>>

\* The details request is issued (requests.get is called).
RequestDetails(p) ==
    /\ pc[p] = "Start"
    /\ sent' = [sent EXCEPT ![p] = Append(@, DetailsRequest(arg[p]))]
    /\ pc' = [pc EXCEPT ![p] = "DetailsRequested"]
    /\ UNCHANGED <<route, arg, response, details_response, token_response,
                   encrypted_url, stream_url, outcome, reply>>

\* The mutant of Fail: a step that did not go on starts the call again.
FailRetries(p, result) ==
    /\ outcome' = [outcome EXCEPT ![p] = result]
    /\ pc' = [pc EXCEPT ![p] = "Start"]

\* get_streaming_url ends in a step that did not go on.
Fail(p, result) ==
    /\ outcome' = [outcome EXCEPT ![p] = result]
    /\ pc' = [pc EXCEPT ![p] = "Failed"]

\* Step 1 ends: its try block assigns encrypted_url, or its handler raises.
DetailsRespond(p) ==
    /\ pc[p] = "DetailsRequested"
    /\ \E r \in DetailsResponses :
           /\ details_response' = [details_response EXCEPT ![p] = r]
           /\ LET step == DetailsStep(r)
              IN  IF step.kind = "proceed"
                  THEN /\ encrypted_url' = [encrypted_url EXCEPT ![p] = step.ret]
                       /\ pc' = [pc EXCEPT ![p] = "DetailsValidated"]
                       /\ UNCHANGED outcome
                  ELSE /\ Fail(p, step)
                       /\ UNCHANGED encrypted_url
    /\ UNCHANGED <<route, arg, sent, response, token_response, stream_url, reply>>

\* The mutant of RequestToken: encrypted_url is a field the invocations share,
\* so the token request is built from what any of them stored there.
RequestTokenShared(p) ==
    /\ pc[p] = "DetailsValidated"
    /\ \E q \in Requests :
           /\ encrypted_url[q] # Unset
           /\ IF PyQuote(encrypted_url[q]).ok
              THEN /\ sent' = [sent EXCEPT ![p] =
                          Append(@, TokenRequest(ValueOf(PyQuote(encrypted_url[q]).val)))]
                   /\ pc' = [pc EXCEPT ![p] = "TokenRequested"]
                   /\ UNCHANGED outcome
              ELSE /\ Fail(p, Raise("TypeError", MsgQuote))
                   /\ UNCHANGED sent
    /\ UNCHANGED <<route, arg, response, details_response, token_response,
                   encrypted_url, stream_url, reply>>

\* Between the two try blocks: quote(encrypted_url), then the token request.
RequestToken(p) ==
    /\ pc[p] = "DetailsValidated"
    /\ LET encoded == PyQuote(encrypted_url[p])
       IN  IF encoded.ok
           THEN /\ sent' = [sent EXCEPT ![p] =
                                Append(@, TokenRequest(ValueOf(encoded.val)))]
                /\ pc' = [pc EXCEPT ![p] = "TokenRequested"]
                /\ UNCHANGED outcome
           ELSE /\ Fail(p, Raise("TypeError", MsgQuote))
                /\ UNCHANGED sent
    /\ UNCHANGED <<route, arg, response, details_response, token_response,
                   encrypted_url, stream_url, reply>>

\* Step 2 ends: its try block has a str auth_url, or its handler raises.
TokenRespond(p) ==
    /\ pc[p] = "TokenRequested"
    /\ \E r \in TokenResponses :
           /\ token_response' = [token_response EXCEPT ![p] = r]
           /\ LET step == TokenStep(r)
              IN  IF step.kind = "proceed"
                  THEN /\ stream_url' = [stream_url EXCEPT ![p] = step.ret]
                       /\ pc' = [pc EXCEPT ![p] = "TokenValidated"]
                       /\ UNCHANGED outcome
                  ELSE /\ Fail(p, step)
                       /\ UNCHANGED stream_url
    /\ UNCHANGED <<route, arg, sent, response, details_response, encrypted_url,
                   reply>>

\* return stream_url.replace(...).replace(...)
ReturnStreamUrl(p) ==
    /\ pc[p] = "TokenValidated"
    /\ outcome' = [outcome EXCEPT ![p] =
                       Return(JStr(Transform(ValueOf(stream_url[p]))))]
    /\ pc' = [pc EXCEPT ![p] = "Resolved"]
    /\ UNCHANGED <<route, arg, sent, response, details_response, token_response,
                   encrypted_url, stream_url, reply>>

\* The mutant of StreamAnswer: a failure is answered with an empty stream_url
\* next to the error.
StreamAnswerPartial(result) ==
    IF result.kind = "return"
    THEN JsonStreamUrl(result.ret)
    ELSE [status |-> 500, results |-> Unset, stream_url |-> JStr(<<>>),
          error |-> ErrorText(result.msg)]

\* api_stream's answer once get_streaming_url has ended.
StreamAnswer(result) ==
    IF result.kind = "return"
    THEN JsonStreamUrl(result.ret)
    ELSE JsonError(result.msg, 500)

StreamReply(p) ==
    /\ pc[p] \in {"Resolved", "Failed"}
    /\ reply' = [reply EXCEPT ![p] = StreamAnswer(outcome[p])]
    /\ pc' = [pc EXCEPT ![p] = "done"]
    /\ UNCHANGED <<route, arg, sent, response, details_response, token_response,
                   encrypted_url, stream_url, outcome>>

\* The answer is sent; every object of the request is discarded.
Finish(p) ==
    /\ pc[p] = "done"
    /\ pc' = [pc EXCEPT ![p] = "idle"]
    /\ route' = [route EXCEPT ![p] = "none"]
    /\ arg' = [arg EXCEPT ![p] = <<>>]
    /\ sent' = [sent EXCEPT ![p] = <<>>]
    /\ response' = [response EXCEPT ![p] = NoResponse]
    /\ details_response' = [details_response EXCEPT ![p] = NoResponse]
    /\ token_response' = [token_response EXCEPT ![p] = NoResponse]
    /\ encrypted_url' = [encrypted_url EXCEPT ![p] = Unset]
    /\ stream_url' = [stream_url EXCEPT ![p] = Unset]
    /\ outcome' = [outcome EXCEPT ![p] = Pending]
    /\ reply' = [reply EXCEPT ![p] = NoReply]

Next ==
    \/ \E p \in Requests, raw \in RawQueries : ApiSearch(p, raw)
    \/ \E p \in Requests, method \in {"GET", "POST"}, raw \in RawQueries :
           Index(p, method, raw)
    \/ \E p \in Requests : SearchRespond(p)
    \/ \E p \in Requests : SearchReply(p)
    \/ \E p \in Requests, song_id \in SongIds : ApiStream(p, song_id)
    \/ \E p \in Requests : RequestDetails(p)
    \/ \E p \in Requests : DetailsRespond(p)
    \/ \E p \in Requests : RequestToken(p)
    \/ \E p \in Requests : TokenRespond(p)
    \/ \E p \in Requests : ReturnStreamUrl(p)
    \/ \E p \in Requests : StreamReply(p)
    \/ \E p \in Requests : Finish(p)

Spec == Init /\ [][Next]_vars

(***************************************************************************)
(* Two invocations of get_streaming_url at the same time: the server       *)
(* handles each request in a thread of its own, and the threads' steps     *)
(* interleave in any order.                                                *)
(***************************************************************************)
\* get_streaming_url as a function of the two answers it receives: Step 1,
\* the quote between the steps, Step 2 and the return.
get_streaming_url(details, token) ==
    LET step1 == DetailsStep(details)
        step2 == TokenStep(token)
    IN  IF step1.kind # "proceed" THEN step1
        ELSE IF ~PyQuote(step1.ret).ok THEN Raise("TypeError", MsgQuote)
        ELSE IF step2.kind # "proceed" THEN step2
        ELSE Return(JStr(Transform(ValueOf(step2.ret))))

Pair == {"r1", "r2"}

\* What the upstream answers in these runs: no answer, a valid answer (two
\* of them, so that the invocations hold different values) and an invalid one.
PairDetailsResponses ==
    {TransportError}
    \cup {HttpResponse(200, Dumps(SongsOf(JList(<<Song(e)>>)))) :
              e \in {JStr(EncE1), JStr(EncSpecial), JNum(5)}}
PairTokenResponses ==
    {TransportError}
    \cup {HttpResponse(200, Dumps(Obj1(kAuthUrl, x))) :
              x \in {JStr(UrlShort), JStr(UrlTrack), JNull}}

\* No other request in progress is for this track.
OtherTracks(p, song_id) ==
    \A q \in Requests \ {p} : pc[q] = "idle" \/ arg[q] # song_id

ConcurrentNext ==
    \/ \E p \in Requests, song_id \in SongIds :
           OtherTracks(p, song_id) /\ ApiStream(p, song_id)
    \/ \E p \in Requests : RequestDetails(p)
    \/ \E p \in Requests :
           DetailsRespond(p) /\ details_response'[p] \in PairDetailsResponses
    \/ \E p \in Requests : RequestToken(p)
    \/ \E p \in Requests :
           TokenRespond(p) /\ token_response'[p] \in PairTokenResponses
    \/ \E p \in Requests : ReturnStreamUrl(p)
    \/ \E p \in Requests : StreamReply(p)
    \/ \E p \in Requests : Finish(p)

ConcurrentSpec == InitFor(Pair) /\ [][ConcurrentNext]_vars

(***************************************************************************)
(* Progress.  A handler that can take a step of its own takes it: the      *)
(* thread keeps running.  Nothing makes requests.get end: it is called     *)
(* without a timeout, so it returns or raises only when the upstream or    *)
(* the network makes it.                                                   *)
(***************************************************************************)
Handlers == {"r1"}

HandlerFairness ==
    \A p \in Handlers :
        /\ WF_vars(SearchReply(p))
        /\ WF_vars(RequestDetails(p))
        /\ WF_vars(RequestToken(p))
        /\ WF_vars(ReturnStreamUrl(p))
        /\ WF_vars(StreamReply(p))
        /\ WF_vars(Finish(p))

LiveSpec == Init /\ [][Next]_vars /\ HandlerFairness

(***************************************************************************)
(* Properties.  What a property says about a response is written here from *)
(* the response's text, not from the handlers' intermediate results.       *)
(***************************************************************************)
\* search_songs has ended for request p.
Searched(p) ==
    /\ route[p] \in {"index", "api_search"}
    /\ pc[p] \in {"SearchReturned", "done"}
    /\ response[p].kind # "none"

HasBrace(text) == \E k \in 1..Len(text) : text[k] = "{"
IsFirstBrace(text, k) == text[k] = "{" /\ \A j \in 1..(k - 1) : text[j] # "{"
\* The text from its first "{" onward; the text itself when it has none.
FromFirstBrace(text) ==
    IF HasBrace(text)
    THEN SubSeq(text, CHOOSE k \in 1..Len(text) : IsFirstBrace(text, k), Len(text))
    ELSE text
Success(status) == status \in 200..299

\* The top-level `results` of the parsed text, the empty sequence without one.
ResultsField(text) ==
    LET data == JsonLoads(FromFirstBrace(text)).val
    IN  IF TypeOf(data) = "dict" /\ DictHas(ValueOf(data), kResults)
        THEN DictLookup(ValueOf(data), kResults)
        ELSE EmptyList

\* C1: for every non-empty query and every upstream outcome, search_songs
\* does not raise and what it returns is a sequence (a list, empty or not).
C1_SearchReturnsSequence ==
    \A p \in Requests :
        Searched(p) =>
            /\ arg[p] # <<>>
            /\ outcome[p].kind = "return"
            /\ TypeOf(outcome[p].ret) = "list"

\* C2: search_songs returns exactly the empty sequence when the upstream call
\* fails at transport level, the status is not 2xx, or the body from its first
\* "{" onward is not JSON; the route then answers without an error.
C2_FailureGivesEmpty ==
    \A p \in Requests :
        ( /\ Searched(p)
          /\ \/ response[p].kind = "exception"
             \/ ~Success(response[p].status)
             \/ ~JsonLoads(FromFirstBrace(response[p].text)).ok )
        => /\ outcome[p] = Return(EmptyList)
           /\ pc[p] = "done" =>
                  /\ reply[p].status = 200
                  /\ reply[p].results = EmptyList
                  /\ reply[p].error \in {Unset, JNull}

\* An answer with status 200 whose text has a "{" and is not JSON from there
\* was turned into the empty sequence.
C2_Witness ==
    \E p \in Requests :
        /\ Searched(p)
        /\ response[p].kind = "http" /\ response[p].status = 200
        /\ HasBrace(response[p].text)
        /\ ~JsonLoads(FromFirstBrace(response[p].text)).ok
        /\ outcome[p] = Return(EmptyList)

\* C3 as stated: with a successful (2xx) status and a parseable body,
\* search_songs returns the top-level `results` of the parsed body, records
\* unmodified and in upstream order, and the empty sequence without `results`.
C3_SuccessReturnsResults ==
    \A p \in Requests :
        ( /\ Searched(p)
          /\ response[p].kind = "http"
          /\ Success(response[p].status)
          /\ JsonLoads(FromFirstBrace(response[p].text)).ok )
        => outcome[p] = Return(ResultsField(response[p].text))

\* C3 as amended: with status 200 and a parseable body, search_songs returns
\* the top-level `results` of the parsed body, records unmodified and in
\* upstream order, and the empty sequence without `results`.
C3_Status200ReturnsResults ==
    \A p \in Requests :
        ( /\ Searched(p)
          /\ response[p].kind = "http"
          /\ response[p].status = 200
          /\ JsonLoads(FromFirstBrace(response[p].text)).ok )
        => outcome[p] = Return(ResultsField(response[p].text))

\* Two different records came back in the order the upstream sent them.
C3_Witness ==
    \E p \in Requests :
        /\ Searched(p)
        /\ response[p].status = 200
        /\ response[p].text =
               Dumps(Obj1(kResults, JList(<<Obj1(KeyId, JStr(<<"b">>)),
                                            Obj1(KeyId, JStr(<<"a">>))>>)))
        /\ outcome[p] = Return(JList(<<Obj1(KeyId, JStr(<<"b">>)),
                                       Obj1(KeyId, JStr(<<"a">>))>>))

\* C4: a body P \o B, B starting with "{" and P without "{", gives under a
\* success status the result that B alone gives.
C4_PrefixIgnored ==
    \A p \in Requests :
        ( /\ Searched(p)
          /\ response[p].kind = "http"
          /\ Success(response[p].status) )
        => \A k \in 1..Len(response[p].text) :
               IsFirstBrace(response[p].text, k) =>
                   outcome[p] =
                       search_songs(HttpResponse(response[p].status,
                           SubSeq(response[p].text, k, Len(response[p].text))))

\* A body with noise in front of its "{" gave a non-empty result.
C4_Witness ==
    \E p \in Requests :
        /\ Searched(p)
        /\ response[p].kind = "http" /\ response[p].status = 200
        /\ HasBrace(response[p].text)
        /\ response[p].text[1] = "x"
        /\ outcome[p].kind = "return"
        /\ TypeOf(outcome[p].ret) = "list"
        /\ ValueOf(outcome[p].ret) # <<>>

\* get_streaming_url has received the answer to its details request.
DetailsAnswered(p) == route[p] = "api_stream" /\ details_response[p].kind = "http"
\* get_streaming_url has received the answer to its token request.
TokenAnswered(p) == route[p] = "api_stream" /\ token_response[p].kind = "http"

IsDict(x) == TypeOf(x) = "dict"
HasField(x, key) == IsDict(x) /\ DictHas(ValueOf(x), key)
Field(x, key) == DictLookup(ValueOf(x), key)

\* The text is a JSON object without `songs`, or whose `songs` is empty.
LacksSongs(text) ==
    LET data == JsonLoads(text)
    IN  /\ data.ok
        /\ IsDict(data.val)
        /\ \/ ~HasField(data.val, kSongs)
           \/ Field(data.val, kSongs) \in {EmptyList, EmptyDict}

\* The first entry of `songs` is a mapping that fails the validation of Step 1:
\* no `more_info`, a `more_info` that is no mapping or has no
\* `encrypted_media_url`, or an `encrypted_media_url` that is not a string.
FirstSongInvalid(text) ==
    LET data == JsonLoads(text)
        songs == Field(data.val, kSongs)
        first == ValueOf(songs)[1]
        more_info == Field(first, kMoreInfo)
    IN  /\ data.ok
        /\ HasField(data.val, kSongs)
        /\ TypeOf(songs) = "list" /\ ValueOf(songs) # <<>>
        /\ IsDict(first)
        /\ \/ ~HasField(first, kMoreInfo)
           \/ ~IsDict(more_info)
           \/ ~HasField(more_info, kEncryptedMediaUrl)
           \/ TypeOf(Field(more_info, kEncryptedMediaUrl)) # "str"

IsTokenRequest(request) == request.call = "song.generateAuthToken"

\* C5: when the details response has no `songs` entry (absent or empty),
\* get_streaming_url fails with 'Could not get song details' and issues no
\* token request.
C5_NoSongsNoTokenRequest ==
    \A p \in Requests :
        (DetailsAnswered(p) /\ LacksSongs(details_response[p].text))
        => /\ pc[p] \in {"Failed", "done"}
           /\ outcome[p] = Raise("Exception", "Could not get song details")
           /\ Len(sent[p]) = 1
           /\ ~IsTokenRequest(sent[p][1])
           /\ token_response[p] = NoResponse

\* An empty `songs` collection made the call fail after its one request.
C5_Witness ==
    \E p \in Requests :
        /\ DetailsAnswered(p)
        /\ details_response[p].text = Dumps(Obj1(kSongs, EmptyList))
        /\ pc[p] = "Failed"
        /\ outcome[p].msg = "Could not get song details"
        /\ Len(sent[p]) = 1

\* C6: a details response that fails the validation of Step 1 (`songs` missing
\* or empty, `more_info` missing or no mapping, `encrypted_media_url` missing or
\* not a string) makes get_streaming_url fail with 'Could not get song details'
\* and with no other error.
C6_InvalidDetailsNotFound ==
    \A p \in Requests :
        ( /\ DetailsAnswered(p)
          /\ \/ LacksSongs(details_response[p].text)
             \/ FirstSongInvalid(details_response[p].text) )
        => /\ pc[p] \notin {"TokenRequested", "TokenValidated", "Resolved"}
           /\ pc[p] \in {"Failed", "done"} =>
                  outcome[p] = Raise("Exception", "Could not get song details")

\* The text is not JSON, or JSON without a string `auth_url`.
BadToken(text) ==
    LET data == JsonLoads(text)
    IN  \/ ~data.ok
        \/ ~HasField(data.val, kAuthUrl)
        \/ TypeOf(Field(data.val, kAuthUrl)) # "str"

\* C7: after a valid details response, a token response that cannot be parsed,
\* has no `auth_url` or has an `auth_url` that is no string makes
\* get_streaming_url fail with 'Could not generate streaming URL'; no URL is
\* returned.
C7_BadTokenFails ==
    \A p \in Requests :
        (TokenAnswered(p) /\ BadToken(token_response[p].text))
        => /\ pc[p] \in {"Failed", "done"}
           /\ outcome[p] = Raise("Exception", "Could not generate streaming URL")
           /\ reply[p].stream_url = Unset

\* After Step 1 gave a string, a token response with a null `auth_url` ended
\* the call with the token error.
C7_Witness ==
    \E p \in Requests :
        /\ TokenAnswered(p)
        /\ TypeOf(encrypted_url[p]) = "str"
        /\ token_response[p].text = Dumps(Obj1(kAuthUrl, JNull))
        /\ pc[p] = "Failed"
        /\ outcome[p].msg = "Could not generate streaming URL"

\* One of the two steps failed: in transport, in parsing or in validation.
StepFailed(p) ==
    \/ details_response[p].kind = "exception"
    \/ /\ details_response[p].kind = "http"
       /\ \/ ~JsonLoads(details_response[p].text).ok
          \/ LacksSongs(details_response[p].text)
          \/ FirstSongInvalid(details_response[p].text)
    \/ token_response[p].kind = "exception"
    \/ token_response[p].kind = "http" /\ BadToken(token_response[p].text)

\* C8: when a step fails get_streaming_url raises, and /api/stream answers 500
\* with an `error` and no `stream_url`; a `stream_url` is answered only when
\* the details step and the token step were both validated.
C8_NoPartialResult ==
    \A p \in Requests :
        (route[p] = "api_stream" /\ pc[p] \in {"Failed", "Resolved", "done"})
        => /\ outcome[p].kind \in {"return", "raise"}
           /\ StepFailed(p) => outcome[p].kind = "raise"
           /\ pc[p] = "Failed" <=> outcome[p].kind = "raise" /\ pc[p] # "done"
           /\ (pc[p] = "done" /\ outcome[p].kind = "raise") =>
                  /\ reply[p].status = 500
                  /\ reply[p].error = ErrorText(outcome[p].msg)
                  /\ reply[p].stream_url = Unset
           /\ (pc[p] = "done" /\ reply[p].stream_url # Unset) =>
                  /\ outcome[p].kind = "return"
                  /\ reply[p].status = 200
                  /\ reply[p].error = Unset
                  /\ reply[p].stream_url = outcome[p].ret
                  /\ TypeOf(reply[p].stream_url) = "str"
                  /\ DetailsAnswered(p) /\ TokenAnswered(p)
                  /\ ~StepFailed(p)

\* The details step succeeded and the token step failed: the answer is the
\* error alone.
C8_Witness ==
    \E p \in Requests :
        /\ route[p] = "api_stream" /\ pc[p] = "done"
        /\ TypeOf(encrypted_url[p]) = "str"
        /\ token_response[p].kind = "exception"
        /\ reply[p].status = 500
        /\ reply[p].error = ErrorText("Could not generate streaming URL")
        /\ reply[p].stream_url = Unset

\* The encrypted_media_url of the first song of a details text.
EncryptedOf(text) ==
    Field(Field(ValueOf(Field(JsonLoads(text).val, kSongs))[1], kMoreInfo),
          kEncryptedMediaUrl)
\* The auth_url of a token text.
AuthUrlOf(text) == Field(JsonLoads(text).val, kAuthUrl)
\* The percent-encodings of the encrypted references upstream sends.
EncSpecialEncoded ==
    <<"a", "/", "b", "%", "3", "A", "c", "%", "3", "F", "d", "%", "3", "D", "e",
      "%", "2", "B">>
PercentEncoded(e) == IF e = EncSpecial THEN EncSpecialEncoded ELSE e

\* C9: the second request is a song.generateAuthToken call with the
\* percent-encoding of the encrypted_media_url of the details response and
\* bitrate=320, and the value returned is the transformation of the auth_url
\* of the token response; E1 and https://web.saavncdn.com/s_96.mp4 give
\* https://aac.saavncdn.com/s_320.mp4.
C9_EndToEnd ==
    \A p \in Requests :
        route[p] = "api_stream" =>
            /\ Len(sent[p]) <= 2
            /\ Len(sent[p]) = 2 =>
                   sent[p][2] =
                       [base |-> "https://www.jiosaavn.com/api.php",
                        call |-> "song.generateAuthToken",
                        params |->
                            <<<<"url", PercentEncoded(ValueOf(
                                  EncryptedOf(details_response[p].text)))>>,
                              <<"bitrate", <<"3", "2", "0">>>>>>,
                        fixed |-> "&_format=json&_marker=0&api_version=4&ctx=web6dot0"]
            /\ outcome[p].kind = "return" =>
                   /\ outcome[p].ret =
                          JStr(Transform(ValueOf(AuthUrlOf(token_response[p].text))))
                   /\ ( /\ EncryptedOf(details_response[p].text) = JStr(<<"E", "1">>)
                        /\ AuthUrlOf(token_response[p].text) = JStr(UrlShort) )
                      => /\ sent[p][2].params[1] = <<"url", <<"E", "1">>>>
                         /\ outcome[p].ret = JStr(UrlShort320)

\* The scenario of the specification ran to its end.
C9_Witness ==
    \E p \in Requests :
        /\ route[p] = "api_stream" /\ pc[p] = "done"
        /\ details_response[p].text = Dumps(SongsOf(JList(<<Song(JStr(EncE1))>>)))
        /\ token_response[p].text = Dumps(Obj1(kAuthUrl, JStr(UrlShort)))
        /\ sent[p][2].params = <<<<"url", <<"E", "1">>>>, <<"bitrate", Bitrate320>>>>
        /\ reply[p].stream_url = JStr(UrlShort320)

\* C10: the transformation is idempotent (applied to a URL it returned, it
\* returns that URL), and an auth_url with neither web.saavncdn.com nor
\* _96.mp4 is returned unchanged.
C10_TransformIdempotent ==
    \A p \in Requests :
        (route[p] = "api_stream" /\ outcome[p].kind = "return")
        => /\ Transform(ValueOf(outcome[p].ret)) = ValueOf(outcome[p].ret)
           /\ ( /\ ~Contains(ValueOf(stream_url[p]), WebHost)
                /\ ~Contains(ValueOf(stream_url[p]), Suffix96) )
              => outcome[p].ret = stream_url[p]

\* https://web.saavncdn.com/track_96.mp4?x=1 was transformed.
C10_Witness ==
    \E p \in Requests :
        /\ route[p] = "api_stream" /\ outcome[p].kind = "return"
        /\ stream_url[p] = JStr(UrlTrack)
        /\ outcome[p].ret = JStr(UrlTrack320)
        /\ Transform(UrlTrack320) = UrlTrack320

\* C11: under every interleaving of two invocations for different tracks, an
\* invocation's requests and locals come from its own track id and its own
\* answers, and it ends as it would have ended alone with those answers.
C11_NoInterference ==
    \A p \in Requests :
        route[p] = "api_stream" =>
            /\ \A q \in Requests \ {p} : route[q] = "api_stream" => arg[q] # arg[p]
            /\ Len(sent[p]) >= 1 =>
                   sent[p][1].params = <<<<"pids", arg[p]>>>>
            /\ encrypted_url[p] # Unset =>
                   encrypted_url[p] = EncryptedOf(details_response[p].text)
            /\ Len(sent[p]) = 2 =>
                   /\ TypeOf(EncryptedOf(details_response[p].text)) = "str"
                   /\ sent[p][2].params[1] =
                          <<"url", PercentEncoded(ValueOf(
                                       EncryptedOf(details_response[p].text)))>>
            /\ stream_url[p] # Unset =>
                   stream_url[p] = AuthUrlOf(token_response[p].text)
            /\ pc[p] \in {"Resolved", "Failed", "done"} =>
                   outcome[p] =
                       get_streaming_url(details_response[p], token_response[p])

\* Both invocations wait for their token, each with the encrypted reference
\* of its own details response in its request.
C11_Witness ==
    /\ pc = [p \in Pair |-> "TokenRequested"]
    /\ arg["r1"] # arg["r2"]
    /\ encrypted_url["r1"] = JStr(EncE1)
    /\ encrypted_url["r2"] = JStr(EncSpecial)
    /\ sent["r1"][2].params[1] = <<"url", EncE1>>
    /\ sent["r2"][2].params[1] = <<"url", EncSpecialEncoded>>

\* A network call of request p is in progress.
Waiting(p) == pc[p] \in {"SearchRequested", "DetailsRequested", "TokenRequested"}
\* The function that made the call has gone on or ended.
CallOver(p) == pc[p] \notin {"SearchRequested", "DetailsRequested", "TokenRequested"}

\* C12: every network call is bounded by a timeout: an invocation that waits
\* for the upstream eventually goes on, returns or fails, the upstream
\* answering or not.
C12_EveryCallEnds == \A p \in Handlers : Waiting(p) ~> CallOver(p)

\* The states of the state machine of get_streaming_url.
MachineStates ==
    {"Start", "DetailsRequested", "DetailsValidated", "TokenRequested",
     "TokenValidated", "Resolved", "Failed"}
\* The state that follows a state when its step succeeds.
Successor(state) ==
    CASE state = "Start" -> {"DetailsRequested"}
      [] state = "DetailsRequested" -> {"DetailsValidated"}
      [] state = "DetailsValidated" -> {"TokenRequested"}
      [] state = "TokenRequested" -> {"TokenValidated"}
      [] state = "TokenValidated" -> {"Resolved"}
      [] OTHER -> {}
Terminal(state) == state \in {"Resolved", "Failed"}
\* The transitions the state machine allows from a state.
Allowed(state) ==
    IF Terminal(state) THEN {} ELSE Successor(state) \cup {"Failed"}

\* C13: an invocation of get_streaming_url enters the state machine at Start,
\* moves only to the next state of Start -> DetailsRequested ->
\* DetailsValidated -> TokenRequested -> TokenValidated -> Resolved or to
\* Failed, never leaves Resolved or Failed for another state of the machine,
\* and has issued its token request only with the details response validated.
C13_StateMachine ==
    [][\A p \in Requests :
          /\ (pc[p] \notin MachineStates /\ pc'[p] \in MachineStates) =>
                 pc'[p] = "Start" /\ sent'[p] = <<>>
          /\ (pc[p] \in MachineStates /\ pc'[p] # pc[p]) =>
                 IF Terminal(pc[p])
                 THEN pc'[p] \notin MachineStates
                 ELSE pc'[p] \in Allowed(pc[p])
          /\ pc'[p] = "Failed" => outcome'[p].kind = "raise"
          /\ pc'[p] = "Resolved" => outcome'[p].kind = "return"
          /\ (pc'[p] \in MachineStates /\ ~Terminal(pc'[p])) => outcome'[p] = Pending
          /\ (\E k \in 1..Len(sent'[p]) : IsTokenRequest(sent'[p][k])) =>
                 /\ pc'[p] \in {"TokenRequested", "TokenValidated", "Resolved",
                                 "Failed", "done"}
                 /\ details_response'[p].kind = "http"
                 /\ encrypted_url'[p] # Unset
      ]_vars

\* An invocation went through every state up to Resolved.
C13_Witness ==
    \E p \in Requests :
        /\ pc[p] = "Resolved"
        /\ Len(sent[p]) = 2
        /\ details_response[p].kind = "http"
        /\ token_response[p].kind = "http"
        /\ encrypted_url[p] # Unset /\ stream_url[p] # Unset
        /\ outcome[p].kind = "return"

\* The number of requests of this call among the requests issued.
RECURSIVE CountCalls(_, _)
CountCalls(requests, call) ==
    IF requests = <<>> THEN 0
    ELSE (IF Head(requests).call = call THEN 1 ELSE 0)
         + CountCalls(Tail(requests), call)

\* C14: an invocation of search_songs issues exactly one request, and an
\* invocation of get_streaming_url exactly one details request and at most
\* one token request, whatever the upstream answers.
C14_NoRetries ==
    \A p \in Requests :
        /\ (route[p] \in {"index", "api_search"} /\ pc[p] # "done") =>
               /\ Len(sent[p]) = 1
               /\ CountCalls(sent[p], "search.getResults") = 1
        /\ (route[p] \in {"index", "api_search"} /\ pc[p] = "done") =>
               /\ Len(sent[p]) = (IF response[p].kind = "none" THEN 0 ELSE 1)
               /\ CountCalls(sent[p], "search.getResults") = Len(sent[p])
        /\ (route[p] = "api_stream" /\ pc[p] # "Start") =>
               /\ CountCalls(sent[p], "song.getDetails") = 1
               /\ CountCalls(sent[p], "song.generateAuthToken") <= 1
               /\ CountCalls(sent[p], "search.getResults") = 0
               /\ Len(sent[p]) <= 2
               /\ token_response[p].kind # "none" =>
                      CountCalls(sent[p], "song.generateAuthToken") = 1
        /\ (route[p] = "api_stream" /\ pc[p] = "Start") => sent[p] = <<>>

\* The token request got no answer and the call ended, one request of each
\* kind issued.
C14_Witness ==
    \E p \in Requests :
        /\ route[p] = "api_stream" /\ pc[p] = "Failed"
        /\ token_response[p].kind = "exception"
        /\ CountCalls(sent[p], "song.getDetails") = 1
        /\ CountCalls(sent[p], "song.generateAuthToken") = 1

\* C15: every failure of get_streaming_url reaches the caller as one of two
\* conditions: 'Could not get song details' for a failure during Step 1,
\* 'Could not generate streaming URL' for a failure after it (building the
\* token request from the output of Step 1 included); nothing else escapes.
C15_TwoConditions ==
    \A p \in Requests :
        (route[p] = "api_stream" /\ outcome[p].kind = "raise")
        => /\ outcome[p].exc = "Exception"
           /\ outcome[p].msg =
                  (IF encrypted_url[p] = Unset
                   THEN "Could not get song details"
                   ELSE "Could not generate streaming URL")
           /\ pc[p] = "done" =>
                  reply[p].error \in
                      {ErrorText("Could not get song details"),
                       ErrorText("Could not generate streaming URL")}

\* s with every occurrence of old, taken from the left, turned into new and
\* every other character kept.
RECURSIVE SubstAll(_, _, _)
SubstAll(s, old, new) ==
    IF Len(s) < Len(old) THEN s
    ELSE IF SubSeq(s, 1, Len(old)) = old
         THEN new \o SubstAll(SubSeq(s, Len(old) + 1, Len(s)), old, new)
         ELSE <<Head(s)>> \o SubstAll(Tail(s), old, new)
\* Both substitutions, the host first.
Substituted(s) ==
    SubstAll(SubstAll(s, <<"w", "e", "b", ".", "s", "a", "a", "v", "n", "c", "d", "n",
                         ".", "c", "o", "m">>,
                      <<"a", "a", "c", ".", "s", "a", "a", "v", "n", "c", "d", "n",
                        ".", "c", "o", "m">>),
             <<"_", "9", "6", ".", "m", "p", "4">>,
             <<"_", "3", "2", "0", ".", "m", "p", "4">>)
\* Where the query string of a URL starts: at its first "?", after its end
\* when it has none.
QueryStart(s) ==
    IF \E k \in 1..Len(s) : s[k] = "?"
    THEN CHOOSE k \in 1..Len(s) : s[k] = "?" /\ \A j \in 1..(k - 1) : s[j] # "?"
    ELSE Len(s) + 1
BeforeQuery(s) == SubSeq(s, 1, QueryStart(s) - 1)
QueryString(s) == SubSeq(s, QueryStart(s), Len(s))

\* C16 as stated: the URL returned is the auth_url with web.saavncdn.com
\* replaced by aac.saavncdn.com and _96.mp4 replaced by _320.mp4, each alone
\* when the other is absent, and with every other character, the query
\* string included, unchanged.
C16_QueryStringUnchanged ==
    \A p \in Requests :
        (route[p] = "api_stream" /\ outcome[p].kind = "return")
        => LET auth_url == ValueOf(AuthUrlOf(token_response[p].text))
           IN  ValueOf(outcome[p].ret) =
                   Substituted(BeforeQuery(auth_url)) \o QueryString(auth_url)

\* C16 as amended: the URL returned is the auth_url with every occurrence of
\* web.saavncdn.com replaced by aac.saavncdn.com and every occurrence of
\* _96.mp4 replaced by _320.mp4, wherever in the URL it stands (the query
\* string included), each alone when the other is absent, and with every
\* other character unchanged.
C16_EveryOccurrenceReplaced ==
    \A p \in Requests :
        (route[p] = "api_stream" /\ outcome[p].kind = "return")
        => LET auth_url == ValueOf(AuthUrlOf(token_response[p].text))
           IN  /\ ValueOf(outcome[p].ret) = Substituted(auth_url)
               /\ (\A k \in 1..Len(auth_url) : auth_url[k] # "_") =>
                      Len(ValueOf(outcome[p].ret)) = Len(auth_url)
               /\ ~Contains(auth_url, <<"w", "e", "b", ".">>) =>
                      ~Contains(ValueOf(outcome[p].ret), <<"a", "a", "c", ".">>)
                      \/ Contains(auth_url, <<"a", "a", "c", ".">>)

\* A URL with the file name in its path and again in its query string came
\* back with both changed.
C16_Witness ==
    \E p \in Requests :
        /\ route[p] = "api_stream" /\ outcome[p].kind = "return"
        /\ AuthUrlOf(token_response[p].text) = JStr(UrlEcho)
        /\ outcome[p].ret = JStr(UrlShort320 \o QueryFile \o Suffix320)

\* The text is empty or made of blanks only.
IsBlank(raw) == \A k \in 1..Len(raw) : raw[k] = " "

\* C17: for a query that is empty or blank, /api/search answers 400 with an
\* error and the index route renders empty results, neither calling
\* search_songs nor issuing a request; a search that is started has a
\* non-empty query.
C17_EmptyQueryNotSearched ==
    [][\A p \in Requests :
          /\ \A raw \in RawQueries :
                 (IsBlank(raw) /\ ApiSearch(p, raw)) =>
                     /\ pc'[p] = "done"
                     /\ sent'[p] = <<>>
                     /\ response'[p] = NoResponse
                     /\ reply'[p].status = 400
                     /\ reply'[p].error # Unset
                     /\ reply'[p].results = Unset
          /\ \A raw \in RawQueries, method \in {"GET", "POST"} :
                 (IsBlank(raw) /\ Index(p, method, raw)) =>
                     /\ pc'[p] = "done"
                     /\ sent'[p] = <<>>
                     /\ response'[p] = NoResponse
                     /\ reply'[p].status = 200
                     /\ reply'[p].results = EmptyList
          /\ pc'[p] = "SearchRequested" =>
                 /\ arg'[p] # <<>>
                 /\ ~IsBlank(arg'[p])
                 /\ Len(sent'[p]) = 1
                 /\ sent'[p][1].params[1][2] # <<>>
          /\ (pc'[p] = "done" /\ route'[p] \in {"index", "api_search"}
                             /\ arg'[p] = <<>>) => sent'[p] = <<>>
      ]_vars

\* /api/search answered 400 and no request was issued.
C17_Witness ==
    \E p \in Requests :
        /\ route[p] = "api_search" /\ pc[p] = "done"
        /\ arg[p] = <<>>
        /\ reply[p].status = 400
        /\ reply[p].error = ErrorText("Query parameter required")
        /\ sent[p] = <<>>
        /\ response[p] = NoResponse

\* The response with another status in place of its own.
WithStatus(r, status) == HttpResponse(status, r.text)

\* C18: get_streaming_url never looks at a status: each step gives for a
\* response what it gives for the same body under any other status, so a
\* token response with a string auth_url ends the call with the transformed
\* URL whatever the two statuses were; search_songs gives the empty sequence
\* for every status other than 200.
C18_StatusIgnored ==
    \A p \in Requests :
        /\ DetailsAnswered(p) =>
               \A st \in Statuses :
                   DetailsStep(WithStatus(details_response[p], st))
                       = DetailsStep(details_response[p])
        /\ TokenAnswered(p) =>
               /\ \A st \in Statuses :
                      TokenStep(WithStatus(token_response[p], st))
                          = TokenStep(token_response[p])
               /\ (~BadToken(token_response[p].text)
                     /\ pc[p] \in {"Resolved", "done"}) =>
                      outcome[p] =
                          Return(JStr(Substituted(
                              ValueOf(AuthUrlOf(token_response[p].text)))))
        /\ (route[p] = "api_stream" /\ pc[p] \in {"Resolved", "Failed", "done"}
              /\ details_response[p].kind = "http"
              /\ token_response[p].kind = "http") =>
               outcome[p] = get_streaming_url(WithStatus(details_response[p], 200),
                                              WithStatus(token_response[p], 200))
        /\ (Searched(p) /\ response[p].kind = "http" /\ response[p].status # 200) =>
               outcome[p] = Return(EmptyList)

\* Both answers came with status 404 and well-formed bodies, and the call
\* returned the URL.
C18_Witness ==
    \E p \in Requests :
        /\ route[p] = "api_stream" /\ pc[p] = "Resolved"
        /\ details_response[p] =
               HttpResponse(404, Dumps(SongsOf(JList(<<Song(JStr(EncE1))>>))))
        /\ token_response[p] = HttpResponse(404, Dumps(Obj1(kAuthUrl, JStr(UrlShort))))
        /\ outcome[p] = Return(JStr(UrlShort320))

====
